---- MODULE Spec2Model ----
(***************************************************************************)
(* Model of PerlLanguageServer._start_server                               *)
(* (src/solidlsp/language_servers/perl_language_server.py).                *)
(*                                                                         *)
(* Two threads share the object: the control thread runs _start_server     *)
(* (handler registration, process start, initialize round trip, capability *)
(* validation, `initialized`, readiness wait) and the transport's delivery *)
(* thread runs the registered handlers for the messages the engine sends.  *)
(* The two threading.Event latches and the logger are the shared state.    *)
(*                                                                         *)
(* Construction (__init__ and _setup_runtime_dependencies: finding perl,   *)
(* the version probe, the loadability probe and the cpanm / cpan install)  *)
(* is the second specification, SetupSpec; the workspace filter            *)
(* (is_ignored_dirname and _get_perl_exclude_patterns) is the third,       *)
(* FilterSpec.                                                             *)
(***************************************************************************)
EXTENDS Integers, Sequences, FiniteSets, TLC

(***************************************************************************)
(* Bounds of the exploration.                                              *)
(***************************************************************************)
MaxMessages == 2      \* messages the engine emits during one startup
MaxSyncInt == 3       \* integer textDocumentSync codes range over 0..MaxSyncInt
MaxDepth == 2         \* a scanned directory lies at most this deep below the workspace root

(***************************************************************************)
(* Text: a Python str is a sequence of one-character strings.              *)
(***************************************************************************)
UpperToLower ==
    ("A" :> "a") @@ ("B" :> "b") @@ ("C" :> "c") @@ ("D" :> "d") @@ ("E" :> "e") @@
    ("F" :> "f") @@ ("G" :> "g") @@ ("H" :> "h") @@ ("I" :> "i") @@ ("J" :> "j") @@
    ("K" :> "k") @@ ("L" :> "l") @@ ("M" :> "m") @@ ("N" :> "n") @@ ("O" :> "o") @@
    ("P" :> "p") @@ ("Q" :> "q") @@ ("R" :> "r") @@ ("S" :> "s") @@ ("T" :> "t") @@
    ("U" :> "u") @@ ("V" :> "v") @@ ("W" :> "w") @@ ("X" :> "x") @@ ("Y" :> "y") @@
    ("Z" :> "z")

\* A comparison that keeps the case of the text.
lower_keeps_case(s) == s

\* str.lower()
lower(s) ==
    [i \in 1..Len(s) |-> IF s[i] \in DOMAIN UpperToLower THEN UpperToLower[s[i]] ELSE s[i]]

\* k in s, for str operands
contains(s, k) ==
    \E i \in 1..(Len(s) - Len(k) + 1) : SubSeq(s, i, i + Len(k) - 1) = k

kw_ready == <<"r", "e", "a", "d", "y">>
kw_initialized == <<"i", "n", "i", "t", "i", "a", "l", "i", "z", "e", "d">>
kw_startup_complete ==
    <<"s", "t", "a", "r", "t", "u", "p", " ", "c", "o", "m", "p", "l", "e", "t", "e">>

\* the keyword list of window_log_message
ready_keywords == {kw_ready, kw_initialized, kw_startup_complete}

\* message texts the engine may log
text_server_READY == <<"S", "e", "r", "v", "e", "r", " ", "R", "E", "A", "D", "Y">>
text_Initialized == <<"I", "n", "i", "t", "i", "a", "l", "i", "z", "e", "d">>
text_Startup_Complete ==
    <<"S", "t", "a", "r", "t", "u", "p", " ", "C", "o", "m", "p", "l", "e", "t", "e">>
text_Indexing == <<"I", "n", "d", "e", "x", "i", "n", "g">>
text_rea_dy == <<"r", "e", "a", " ", "d", "y">>

LogTexts ==
    {text_server_READY, text_Initialized, text_Startup_Complete, text_Indexing, text_rea_dy}

(***************************************************************************)
(* Messages the engine sends to the host.                                  *)
(***************************************************************************)
NoText == <<>>
NoKind == "-"

NoRegistrations == <<>>

Msg(method, keys, message, kind) ==
    [method |-> method, keys |-> keys, message |-> message, kind |-> kind,
     registrations |-> NoRegistrations]

\* window/logMessage params: a dict with or without the "message" key
LogMessages ==
    {Msg("window/logMessage", {"type", "message"}, t, NoKind) : t \in LogTexts}
        \cup {Msg("window/logMessage", {"type"}, NoText, NoKind)}

\* $/progress params: without "value", with a value lacking "kind", or with a kind
ProgressKinds == {"begin", "end"}
ProgressMessages ==
    {Msg("$/progress", {"token", "value"}, NoText, k) : k \in ProgressKinds \cup {NoKind}}
        \cup {Msg("$/progress", {"token"}, NoText, NoKind)}

DiagnosticsMessages == {Msg("textDocument/publishDiagnostics", {"uri", "diagnostics"}, NoText, NoKind)}

\* client/registerCapability params: without "registrations", or with a list of
\* registrations, each a dict given by its keys
RegistrationLists ==
    {<<>>, <<{"id", "method"}>>, <<{"id"}>>, <<{"id", "method"}, {"id"}>>}

RegisterCapability(registrations) ==
    [Msg("client/registerCapability", {"registrations"}, NoText, NoKind)
        EXCEPT !.registrations = registrations]

RegisterCapabilityRequests ==
    {RegisterCapability(r) : r \in RegistrationLists}
        \cup {Msg("client/registerCapability", {}, NoText, NoKind)}

ExecuteClientCommandRequests ==
    {Msg("workspace/executeClientCommand", {"command"}, NoText, NoKind)}

(***************************************************************************)
(* The initialize response.                                                *)
(***************************************************************************)
important_capabilities ==
    <<"completionProvider", "hoverProvider", "definitionProvider", "referencesProvider",
      "documentSymbolProvider", "signatureHelpProvider", "documentFormattingProvider">>

\* JSON values of capabilities.textDocumentSync, tagged with their Python type
SyncValue(type, num, keys) == [type |-> type, num |-> num, keys |-> keys]
SyncInts == {SyncValue("int", n, {}) : n \in 0..MaxSyncInt}
SyncBools == {SyncValue("bool", n, {}) : n \in {0, 1}}
SyncDicts ==
    {SyncValue("dict", 0, ks) : ks \in {{}, {"save"}, {"change"}, {"openClose"}, {"openClose", "change"}}}
SyncOthers == {SyncValue(t, 0, {}) : t \in {"str", "NoneType"}}
SyncValues == SyncInts \cup SyncBools \cup SyncDicts \cup SyncOthers
NoSync == SyncValue("absent", 0, {})

FirstProviders(n) == {important_capabilities[i] : i \in 1..n}

\* a response names none of the optional providers, or all of them
ProviderSets ==
    {{}, FirstProviders(Len(important_capabilities))}

Response(keys, capkeys, sync) ==
    [keys |-> keys, capabilities |-> [keys |-> capkeys, textDocumentSync |-> sync]]

NoResponse == Response({"-"}, {}, NoSync)

Responses ==
    {Response({"serverInfo"}, {}, NoSync)}
        \cup {Response({"capabilities"}, ps, NoSync) : ps \in ProviderSets}
        \cup {Response({"capabilities"}, ps \cup {"textDocumentSync"}, v) :
                ps \in ProviderSets, v \in SyncValues}

\* isinstance(v, int): bool is a subclass of int
isinstance_int(v) == v.type \in {"int", "bool"}
isinstance_dict(v) == v.type = "dict"

\* Validation that reads the field with capabilities.get("textDocumentSync")
\* and so lets a missing field through.
verify_capabilities_get(init_response) ==
    IF "capabilities" \notin init_response.keys
    THEN "no capabilities"
    ELSE LET text_document_sync == init_response.capabilities.textDocumentSync
         IN  IF isinstance_int(text_document_sync)
             THEN IF text_document_sync.num \in {1, 2}
                  THEN "ok"
                  ELSE "Unexpected textDocumentSync value"
             ELSE IF isinstance_dict(text_document_sync)
                  THEN IF "change" \in text_document_sync.keys
                            \/ "openClose" \in text_document_sync.keys
                       THEN "ok"
                       ELSE "textDocumentSync should have expected properties"
                  ELSE "ok"

\* Validation that also insists on a completion provider.
verify_capabilities_needs_completion(init_response) ==
    IF "capabilities" \notin init_response.keys
    THEN "no capabilities"
    ELSE LET capabilities == init_response.capabilities
             text_document_sync == capabilities.textDocumentSync
         IN  IF "textDocumentSync" \notin capabilities.keys
             THEN "no textDocumentSync"
             ELSE IF "completionProvider" \notin capabilities.keys
                  THEN "no completionProvider"
                  ELSE IF isinstance_int(text_document_sync)
                       THEN IF text_document_sync.num \in {1, 2}
                            THEN "ok"
                            ELSE "Unexpected textDocumentSync value"
                       ELSE IF isinstance_dict(text_document_sync)
                            THEN IF "change" \in text_document_sync.keys
                                      \/ "openClose" \in text_document_sync.keys
                                 THEN "ok"
                                 ELSE "textDocumentSync should have expected properties"
                            ELSE "ok"

\* The assertions of _start_server on the initialize response; the name of
\* the first one that fails, or "ok".
verify_capabilities(init_response) ==
    IF "capabilities" \notin init_response.keys
    THEN "no capabilities"
    ELSE LET capabilities == init_response.capabilities
             text_document_sync == capabilities.textDocumentSync
         IN  IF "textDocumentSync" \notin capabilities.keys
             THEN "no textDocumentSync"
             ELSE IF isinstance_int(text_document_sync)
                  THEN IF text_document_sync.num \in {1, 2}
                       THEN "ok"
                       ELSE "Unexpected textDocumentSync value"
                  ELSE IF isinstance_dict(text_document_sync)
                       THEN IF "change" \in text_document_sync.keys
                                 \/ "openClose" \in text_document_sync.keys
                            THEN "ok"
                            ELSE "textDocumentSync should have expected properties"
                       ELSE "ok"

(***************************************************************************)
(* State.                                                                  *)
(***************************************************************************)
VARIABLES
    pc,                     \* position of the control thread in _start_server
    handlers,               \* methods registered with the transport, in order
    process,                \* "none", "running", "exited" or "stopped"
    starts,                 \* number of server.start() calls
    initialize_sent,        \* number of initialize requests sent
    init_response,          \* the initialize response, NoResponse before it arrives
    initialized_sent,       \* number of `initialized` notifications sent
    analysis_complete,      \* threading.Event
    completions_available,  \* threading.Event
    logged,                 \* the events written to the logger
    error,                  \* the exception _start_server ended with, or "none"
    hpc,                    \* position of the delivery thread
    hsrc,                   \* the handler the delivery thread is in
    messages,               \* number of messages the engine has emitted
    fired,                  \* readiness sources in the order they fired, each with
                            \* the position of the control thread at that moment
    replies,                \* the result returned for the latest message, NoReply for a notification
    last,                   \* the message the transport dispatched last
    perl_path,              \* the runtime found on the search path, or "none"
    pls_executable,         \* the launch command, or "none"
    invoked,                \* the subprocesses run so far, each with its outcome
    error_msg,              \* the text carried by the error raised
    dirname,                \* the directory name is_ignored_dirname is asked about
    super_ignored,          \* what the base class answers for it
    nesting,                \* the directories above it, from the workspace root
    ignored,                \* the answer of is_ignored_dirname
    patterns                \* the list _get_perl_exclude_patterns returned

vars ==
    <<pc, handlers, process, starts, initialize_sent, init_response, initialized_sent,
      analysis_complete, completions_available, logged, error, hpc, hsrc, messages,
      fired, replies, last, perl_path, pls_executable, invoked, error_msg,
      dirname, super_ignored, nesting, ignored, patterns>>

\* what the workspace filter reads and writes
filter_vars == <<dirname, super_ignored, nesting, ignored, patterns>>

\* what __init__ and its helpers write
setup_vars == <<perl_path, pls_executable, invoked, error_msg>>

control_vars ==
    <<pc, handlers, process, starts, initialize_sent, init_response, initialized_sent, error,
      setup_vars, filter_vars>>

HandlerOrder ==
    <<"client/registerCapability", "window/logMessage", "workspace/executeClientCommand",
      "$/progress", "textDocument/publishDiagnostics">>

Registered == {handlers[i] : i \in 1..Len(handlers)}
AllHandlers == {HandlerOrder[i] : i \in 1..Len(HandlerOrder)}

\* A readiness source firing now: a handler setting the latch, or the wait expiring.
Fired(source) == [source |-> source, at |-> pc]

\* A command that names `perl` and leaves the resolved path out.
LaunchCommand_bare_perl(path) ==
    <<"perl", "-MPerl::LanguageServer", "-e", "'Perl::LanguageServer::run()'", "--",
      "--stdio", "--version", "2.6.0">>

\* The token list of the launch command string (split at the blanks the
\* f-string puts between them).
LaunchCommand(path) ==
    <<path, "-MPerl::LanguageServer", "-e", "'Perl::LanguageServer::run()'", "--",
      "--stdio", "--version", "2.6.0">>

\* First line of `perl --version`: what re.search(r"v(\d+)\.(\d+)\.(\d+)") finds in it.
VersionLine(found, major, minor, patch) ==
    [found |-> found, major |-> major, minor |-> minor, patch |-> patch]

VersionLines ==
    {VersionLine(TRUE, 5, 38, 0), VersionLine(TRUE, 5, 16, 0), VersionLine(TRUE, 5, 14, 4),
     VersionLine(TRUE, 4, 36, 0), VersionLine(FALSE, 0, 0, 0)}

\* a stdout in which the version pattern finds nothing
NoVersion == VersionLine(FALSE, 0, 0, 0)

\* One finished subprocess.run call: the command, its outcome ("0",
\* "nonzero", or "exception" when the call itself raised), its stderr and
\* what the version pattern finds in its stdout.
Ran(cmd, result, stderr) ==
    [cmd |-> cmd, result |-> result, stderr |-> stderr, stdout |-> NoVersion]

NoOutput == <<>>

\* perl --version exited with status 0 and printed v
RanVersion(v) == [Ran("perl --version", "0", NoOutput) EXCEPT !.stdout = v]

PerlPath == "/usr/bin/perl"
PerlPaths == {PerlPath, "/opt/perl5/bin/perl"}
CpanmPath == "/usr/local/bin/cpanm"
NoReply == "-"

NoMessage == Msg("-", {}, NoText, NoKind)

\* no directory has been asked about, no pattern list fetched
NoFilter ==
    /\ dirname = "-"
    /\ super_ignored = FALSE
    /\ nesting = <<>>
    /\ ignored = FALSE
    /\ patterns = <<>>

\* The object as __init__ leaves it when the engine was found installed:
\* both events fresh, nothing registered.
Init ==
    /\ pc = "register"
    /\ handlers = <<>>
    /\ process = "none"
    /\ starts = 0
    /\ initialize_sent = 0
    /\ init_response = NoResponse
    /\ initialized_sent = 0
    /\ analysis_complete = FALSE
    /\ completions_available = FALSE
    /\ logged = {"Perl version", "Starting Perl::LanguageServer in stdio mode"}
    /\ error = "none"
    /\ hpc = "idle"
    /\ hsrc = "none"
    /\ messages = 0
    /\ fired = <<>>
    /\ replies = "-"
    /\ last = NoMessage
    /\ perl_path = PerlPath
    /\ pls_executable = LaunchCommand(PerlPath)
    /\ invoked = <<RanVersion(VersionLine(TRUE, 5, 38, 0)),
                   Ran("perl -MPerl::LanguageServer", "0", NoOutput)>>
    /\ error_msg = NoOutput
    /\ NoFilter

(***************************************************************************)
(* Construction: __init__ and _setup_runtime_dependencies.                 *)
(***************************************************************************)
\* what _start_server and the handlers write
start_vars ==
    <<handlers, process, starts, initialize_sent, init_response, initialized_sent,
      analysis_complete, completions_available, hpc, hsrc, messages, fired, replies, last>>

\* the captured stderr of a failed subprocess; it may be empty
Stderrs(cmd) == {NoOutput, <<cmd, "error output">>}

\* The message that leaves the captured stderr out.
ErrorMsg_without_stderr(e, stderr) == <<e>>

\* error_msg = e.stderr if e.stderr else str(e)
ErrorMsg(e, stderr) == IF stderr # NoOutput THEN stderr ELSE <<e>>

\* A new object: nothing resolved, nothing run.
InitSetup ==
    /\ pc = "find_perl"
    /\ handlers = <<>>
    /\ process = "none"
    /\ starts = 0
    /\ initialize_sent = 0
    /\ init_response = NoResponse
    /\ initialized_sent = 0
    /\ analysis_complete = FALSE
    /\ completions_available = FALSE
    /\ logged = {}
    /\ error = "none"
    /\ hpc = "idle"
    /\ hsrc = "none"
    /\ messages = 0
    /\ fired = <<>>
    /\ replies = "-"
    /\ last = NoMessage
    /\ perl_path = "none"
    /\ pls_executable = "none"
    /\ invoked = <<>>
    /\ error_msg = NoOutput
    /\ NoFilter

\* _find_perl_executable: shutil.which("perl")
find_perl_executable ==
    /\ pc = "find_perl"
    /\ \E found \in PerlPaths \cup {"none"} :
          IF found = "none"
          THEN /\ error' = "RuntimeError: Perl is not installed or not found in PATH"
               /\ error_msg' = <<"install Perl">>
               /\ pc' = "construct_failed"
               /\ UNCHANGED perl_path
          ELSE /\ perl_path' = found
               /\ pc' = "perl_version"
               /\ UNCHANGED <<error, error_msg>>
    /\ UNCHANGED <<start_vars, filter_vars, logged, pls_executable, invoked>>

\* A version probe whose failure is only logged.
check_perl_version_failure_logged ==
    /\ pc = "perl_version"
    /\ \/ \E v \in VersionLines :
             /\ invoked' = Append(invoked, RanVersion(v))
             /\ logged' = logged \cup {"Perl version"}
       \/ \E stderr \in Stderrs("perl --version") :
             /\ invoked' = Append(invoked, Ran("perl --version", "nonzero", stderr))
             /\ logged' = logged \cup {"Error checking Perl installation"}
    /\ pc' = "check_installed"
    /\ UNCHANGED <<start_vars, filter_vars, error, error_msg, perl_path, pls_executable>>

\* A version probe that refuses a perl older than 5.16.
check_perl_version_rejects_old ==
    /\ pc = "perl_version"
    /\ \/ \E v \in VersionLines :
             /\ invoked' = Append(invoked, RanVersion(v))
             /\ logged' = logged \cup {"Perl version"}
             /\ IF v.found /\ (v.major < 5 \/ (v.major = 5 /\ v.minor < 16))
                THEN /\ error' = "RuntimeError: Error checking Perl installation"
                     /\ error_msg' = <<"unsupported version">>
                     /\ pc' = "construct_failed"
                ELSE /\ pc' = "check_installed"
                     /\ UNCHANGED <<error, error_msg>>
       \/ \E stderr \in Stderrs("perl --version") :
             /\ invoked' = Append(invoked, Ran("perl --version", "nonzero", stderr))
             /\ error' = "RuntimeError: Error checking Perl installation"
             /\ error_msg' = ErrorMsg("CalledProcessError", stderr)
             /\ pc' = "construct_failed"
             /\ UNCHANGED logged
    /\ UNCHANGED <<start_vars, filter_vars, perl_path, pls_executable>>

\* _setup_runtime_dependencies: subprocess.run([perl_path, "--version"], check=True)
\* and the version compatibility check
check_perl_version ==
    /\ pc = "perl_version"
    /\ \/ \E v \in VersionLines :
             /\ invoked' = Append(invoked, RanVersion(v))
             /\ logged' = logged \cup {"Perl version"} \cup
                   (IF v.found /\ (v.major < 5 \/ (v.major = 5 /\ v.minor < 16))
                    THEN {"Warning: Perl::LanguageServer works best with Perl 5.16+"}
                    ELSE {})
             /\ pc' = "check_installed"
             /\ UNCHANGED <<error, error_msg>>
       \/ \E stderr \in Stderrs("perl --version") :
             /\ invoked' = Append(invoked, Ran("perl --version", "nonzero", stderr))
             /\ error' = "RuntimeError: Error checking Perl installation"
             /\ error_msg' = ErrorMsg("CalledProcessError", stderr)
             /\ pc' = "construct_failed"
             /\ UNCHANGED logged
    /\ UNCHANGED <<start_vars, filter_vars, perl_path, pls_executable>>

\* A probe whose exception handler answers True.
check_installed_exception_is_true ==
    /\ pc = "check_installed"
    /\ \E result \in {"0", "nonzero", "exception"} :
          /\ invoked' = Append(invoked, Ran("perl -MPerl::LanguageServer", result, NoOutput))
          /\ IF result \in {"0", "exception"}
             THEN /\ pc' = "command"
                  /\ UNCHANGED logged
             ELSE /\ pc' = "install_cpanm"
                  /\ logged' = logged \cup {"Perl::LanguageServer not found, attempting to install"}
    /\ UNCHANGED <<start_vars, filter_vars, error, error_msg, perl_path, pls_executable>>

\* _check_perl_language_server_installed and the branch on it in
\* _get_perl_language_server_command
check_perl_language_server_installed ==
    /\ pc = "check_installed"
    /\ \E result \in {"0", "nonzero", "exception"} :
          /\ invoked' = Append(invoked, Ran("perl -MPerl::LanguageServer", result, NoOutput))
          /\ IF result = "0"
             THEN /\ pc' = "command"
                  /\ UNCHANGED logged
             ELSE /\ pc' = "install_cpanm"
                  /\ logged' = logged \cup {"Perl::LanguageServer not found, attempting to install"}
    /\ UNCHANGED <<start_vars, filter_vars, error, error_msg, perl_path, pls_executable>>

\* An installer that gives up when cpanm fails.
install_with_cpanm_no_fallback ==
    /\ pc = "install_cpanm"
    /\ \E cpanm_path \in {CpanmPath, "none"} :
          IF cpanm_path = "none"
          THEN /\ pc' = "install_cpan"
               /\ UNCHANGED <<invoked, logged, error, error_msg>>
          ELSE \E result \in {"0", "nonzero"}, stderr \in Stderrs("cpanm") :
                  /\ result = "0" => stderr = NoOutput
                  /\ invoked' = Append(invoked, Ran("cpanm", result, stderr))
                  /\ logged' = logged \cup {"Installing using cpanm"}
                  /\ IF result = "0"
                     THEN /\ pc' = "command"
                          /\ UNCHANGED <<error, error_msg>>
                     ELSE /\ error' = "RuntimeError: Failed to install Perl::LanguageServer"
                          /\ error_msg' = ErrorMsg("CalledProcessError", stderr)
                          /\ pc' = "construct_failed"
    /\ UNCHANGED <<start_vars, filter_vars, perl_path, pls_executable>>

\* An installer that runs cpan even after cpanm succeeded.
install_with_cpanm_then_cpan ==
    /\ pc = "install_cpanm"
    /\ \E cpanm_path \in {CpanmPath, "none"} :
          IF cpanm_path = "none"
          THEN /\ pc' = "install_cpan"
               /\ UNCHANGED <<invoked, logged>>
          ELSE \E result \in {"0", "nonzero"}, stderr \in Stderrs("cpanm") :
                  /\ result = "0" => stderr = NoOutput
                  /\ invoked' = Append(invoked, Ran("cpanm", result, stderr))
                  /\ logged' = logged \cup {"Installing using cpanm"}
                  /\ pc' = "install_cpan"
    /\ UNCHANGED <<start_vars, filter_vars, error, error_msg, perl_path, pls_executable>>

\* _install_perl_language_server: shutil.which("cpanm") and the cpanm run
install_with_cpanm ==
    /\ pc = "install_cpanm"
    /\ \E cpanm_path \in {CpanmPath, "none"} :
          IF cpanm_path = "none"
          THEN /\ pc' = "install_cpan"
               /\ UNCHANGED <<invoked, logged>>
          ELSE \E result \in {"0", "nonzero"}, stderr \in Stderrs("cpanm") :
                  /\ result = "0" => stderr = NoOutput
                  /\ invoked' = Append(invoked, Ran("cpanm", result, stderr))
                  /\ IF result = "0"
                     THEN /\ logged' = logged \cup {"Installing using cpanm",
                                                   "Successfully installed using cpanm"}
                          /\ pc' = "command"
                     ELSE /\ logged' = logged \cup {"Installing using cpanm",
                                                   "cpanm installation failed"}
                          /\ pc' = "install_cpan"
    /\ UNCHANGED <<start_vars, filter_vars, error, error_msg, perl_path, pls_executable>>

\* _install_perl_language_server: the cpan fallback, run as perl -MCPAN
install_with_cpan ==
    /\ pc = "install_cpan"
    /\ \E result \in {"0", "nonzero"}, stderr \in Stderrs("perl -MCPAN") :
          /\ result = "0" => stderr = NoOutput
          /\ invoked' = Append(invoked, Ran("perl -MCPAN", result, stderr))
          /\ IF result = "0"
             THEN /\ logged' = logged \cup {"Installing using cpan",
                                           "Successfully installed using cpan"}
                  /\ pc' = "command"
                  /\ UNCHANGED <<error, error_msg>>
             ELSE /\ logged' = logged \cup {"Installing using cpan"}
                  /\ error' = "RuntimeError: Failed to install Perl::LanguageServer"
                  /\ error_msg' = ErrorMsg("CalledProcessError", stderr)
                  /\ pc' = "construct_failed"
    /\ UNCHANGED <<start_vars, filter_vars, perl_path, pls_executable>>

\* A command step that probes for the engine once more before it returns.
get_command_after_second_probe ==
    /\ pc = "command"
    /\ invoked' = Append(invoked, Ran("perl -MPerl::LanguageServer", "0", NoOutput))
    /\ pls_executable' = LaunchCommand(perl_path)
    /\ logged' = logged \cup {"Starting Perl::LanguageServer in stdio mode"}
    /\ pc' = "super_init"
    /\ UNCHANGED <<start_vars, filter_vars, error, error_msg, perl_path>>

\* _get_perl_language_server_command: the command string is returned
get_perl_language_server_command ==
    /\ pc = "command"
    /\ pls_executable' = LaunchCommand(perl_path)
    /\ logged' = logged \cup {"Starting Perl::LanguageServer in stdio mode"}
    /\ pc' = "super_init"
    /\ UNCHANGED <<start_vars, filter_vars, error, error_msg, perl_path, invoked>>

\* the rest of __init__: super().__init__ with the launch info, the two
\* events; the object exists and _start_server can be called on it
init_object ==
    /\ pc = "super_init"
    /\ analysis_complete' = FALSE
    /\ completions_available' = FALSE
    /\ pc' = "register"
    /\ UNCHANGED <<handlers, process, starts, initialize_sent, init_response,
                   initialized_sent, hpc, hsrc, messages, fired, replies, last, logged,
                   error, setup_vars, filter_vars>>

(***************************************************************************)
(* The workspace filter: is_ignored_dirname and _get_perl_exclude_patterns.*)
(***************************************************************************)
perl_ignored_dirs ==
    <<"blib", ".build", "cover_db", "nytprof", "nytprof.out", "_build", "local", ".carton",
      ".cpanm", "fatlib", "perl5", "extlib", "inc", "share", "xt">>

\* A policy that consults only the Perl list.
is_ignored_dirname_perl_only(base, name) ==
    \E i \in 1..Len(perl_ignored_dirs) : perl_ignored_dirs[i] = name

\* super().is_ignored_dirname(dirname) or dirname in perl_ignored_dirs,
\* with base the answer of the base class
is_ignored_dirname(base, name) ==
    base \/ \E i \in 1..Len(perl_ignored_dirs) : perl_ignored_dirs[i] = name

\* the glob patterns "**/<name>/**" and "**/<name>", split at "/"
Under(name) == <<"**", name, "**">>
Named(name) == <<"**", name>>

\* the list returned by _get_perl_exclude_patterns
base_patterns ==
    <<Under("blib"), Under(".build"), Under("cover_db"), Under("nytprof"),
      Named("nytprof.out"), Under("_build"), Under("local"), Under(".carton"),
      Under(".cpanm"), Under("fatlib"), Under("perl5"), Under("extlib"), Under("xt"),
      Under(".git"), Under("node_modules")>>

\* directory names a scan meets
DirNames ==
    {"blib", ".build", "cover_db", "nytprof", "nytprof.out", "_build", "local", ".carton",
     ".cpanm", "fatlib", "perl5", "extlib", "inc", "share", "xt",
     ".git", "node_modules", "lib", "t", "script"}

\* the directories above the scanned one
Nestings == UNION {[1..n -> {"lib"}] : n \in 0..MaxDepth}

\* what the rest of the object holds while the filter is asked
Unconstructed ==
    /\ handlers = <<>>
    /\ process = "none"
    /\ starts = 0
    /\ initialize_sent = 0
    /\ init_response = NoResponse
    /\ initialized_sent = 0
    /\ analysis_complete = FALSE
    /\ completions_available = FALSE
    /\ logged = {}
    /\ error = "none"
    /\ hpc = "idle"
    /\ hsrc = "none"
    /\ messages = 0
    /\ fired = <<>>
    /\ replies = "-"
    /\ last = NoMessage
    /\ perl_path = "none"
    /\ pls_executable = "none"
    /\ invoked = <<>>
    /\ error_msg = NoOutput

\* A scan is about to ask about one directory.
InitFilter ==
    /\ pc = "is_ignored"
    /\ Unconstructed
    /\ dirname \in DirNames
    /\ super_ignored \in BOOLEAN
    /\ nesting \in Nestings
    /\ ignored = FALSE
    /\ patterns = <<>>

object_vars ==
    <<handlers, process, starts, initialize_sent, init_response, initialized_sent,
      analysis_complete, completions_available, logged, error, hpc, hsrc, messages,
      fired, replies, last, setup_vars>>

\* self.is_ignored_dirname(dirname)
call_is_ignored_dirname ==
    /\ pc = "is_ignored"
    /\ ignored' = is_ignored_dirname(super_ignored, dirname)
    /\ pc' = "get_patterns"
    /\ UNCHANGED <<object_vars, dirname, super_ignored, nesting, patterns>>

\* PerlLanguageServer._get_perl_exclude_patterns(repository_root_path)
call_get_perl_exclude_patterns ==
    /\ pc = "get_patterns"
    /\ patterns' = base_patterns
    /\ pc' = "filtered"
    /\ UNCHANGED <<object_vars, dirname, super_ignored, nesting, ignored>>

NextFilter ==
    \/ call_is_ignored_dirname
    \/ call_get_perl_exclude_patterns

FilterSpec == InitFilter /\ [][NextFilter]_vars

(***************************************************************************)
(* Control thread: _start_server.                                          *)
(***************************************************************************)
\* Registration that leaves out the last handler.
register_handler_one_short ==
    /\ pc = "register"
    /\ handlers' = Append(handlers, HandlerOrder[Len(handlers) + 1])
    /\ pc' = IF Len(handlers) + 2 = Len(HandlerOrder) THEN "start" ELSE "register"
    /\ UNCHANGED <<process, starts, initialize_sent, init_response, initialized_sent,
                   analysis_complete, completions_available, logged, error, hpc, hsrc,
                   messages, fired, replies,
                   setup_vars, filter_vars, last>>

\* self.server.on_request / on_notification, one call per step
register_handler ==
    /\ pc = "register"
    /\ handlers' = Append(handlers, HandlerOrder[Len(handlers) + 1])
    /\ pc' = IF Len(handlers) + 1 = Len(HandlerOrder) THEN "start" ELSE "register"
    /\ UNCHANGED <<process, starts, initialize_sent, init_response, initialized_sent,
                   analysis_complete, completions_available, logged, error, hpc, hsrc,
                   messages, fired, replies,
                   setup_vars, filter_vars, last>>

\* A start that is put off: the handshake begins with no process.
server_start_deferred ==
    /\ pc = "start"
    /\ pc' = "initialize"
    /\ UNCHANGED <<handlers, process, starts, initialize_sent, init_response,
                   initialized_sent, analysis_complete, completions_available, logged,
                   error, hpc, hsrc, messages, fired, replies,
                   setup_vars, filter_vars, last>>

\* self.server.start()
server_start ==
    /\ pc = "start"
    /\ process' = "running"
    /\ starts' = starts + 1
    /\ logged' = logged \cup {"Starting Perl::LanguageServer process"}
    /\ pc' = "initialize"
    /\ UNCHANGED <<handlers, initialize_sent, init_response, initialized_sent,
                   analysis_complete, completions_available, error, hpc, hsrc,
                   messages, fired, replies,
                   setup_vars, filter_vars, last>>

\* self.server.send.initialize(initialize_params): the request goes out
send_initialize ==
    /\ pc = "initialize"
    /\ initialize_sent' = initialize_sent + 1
    /\ pc' = "await_response"
    /\ UNCHANGED <<handlers, process, starts, init_response, initialized_sent,
                   analysis_complete, completions_available, logged, error, hpc, hsrc,
                   messages, fired, replies,
                   setup_vars, filter_vars, last>>

\* ... and blocks until the response arrives
receive_response ==
    /\ pc = "await_response"
    /\ process = "running"
    /\ \E r \in Responses : init_response' = r
    /\ pc' = "verify"
    /\ UNCHANGED <<handlers, process, starts, initialize_sent, initialized_sent,
                   analysis_complete, completions_available, logged, error, hpc, hsrc,
                   messages, fired, replies,
                   setup_vars, filter_vars, last>>

\* The engine died before answering: the transport fails the pending request.
initialize_fails ==
    /\ pc = "await_response"
    /\ process = "exited"
    /\ error' = "EngineCrashed"
    /\ pc' = "failed"
    /\ UNCHANGED <<handlers, process, starts, initialize_sent, init_response,
                   initialized_sent, analysis_complete, completions_available, logged,
                   hpc, hsrc, messages, fired, replies,
                   setup_vars, filter_vars, last>>

\* The exception leaves the session that owns the process: process and
\* stream are released on that exit path, and startup has failed.
release_on_failure ==
    /\ pc = "raising"
    /\ process' = IF process = "running" THEN "stopped" ELSE process
    /\ pc' = "failed"
    /\ UNCHANGED <<handlers, starts, initialize_sent, init_response,
                   initialized_sent, analysis_complete, completions_available, logged,
                   error, hpc, hsrc, messages, fired, replies,
                   setup_vars, filter_vars, last>>

\* Validation whose failure is not raised: startup goes on to `initialized`.
verify_response_not_raised ==
    /\ pc = "verify"
    /\ pc' = "notify"
    /\ UNCHANGED <<handlers, process, starts, initialize_sent, init_response,
                   initialized_sent, analysis_complete, completions_available, logged,
                   error, hpc, hsrc, messages, fired, replies,
                   setup_vars, filter_vars, last>>

\* Validation that reports a failed assertion by returning: no exception
\* reaches the owner of the process.
verify_response_returns_failure ==
    /\ pc = "verify"
    /\ IF verify_capabilities(init_response) = "ok"
       THEN /\ pc' = "notify"
            /\ error' = error
       ELSE /\ pc' = "failed"
            /\ error' = "AssertionError"
    /\ UNCHANGED <<handlers, process, starts, initialize_sent, init_response,
                   initialized_sent, analysis_complete, completions_available, logged,
                   hpc, hsrc, messages, fired, replies,
                   setup_vars, filter_vars, last>>

\* the assertions on init_response and the capability log loop; a failed
\* assertion leaves _start_server as an exception
verify_response ==
    /\ pc = "verify"
    /\ IF verify_capabilities(init_response) = "ok"
       THEN /\ pc' = "notify"
            /\ error' = error
       ELSE /\ pc' = "raising"
            /\ error' = "AssertionError"
    /\ UNCHANGED <<handlers, process, starts, initialize_sent, init_response,
                   initialized_sent, analysis_complete, completions_available, logged,
                   hpc, hsrc, messages, fired, replies,
                   setup_vars, filter_vars, last>>

\* `initialized` followed by analysis_complete.clear() ahead of the wait.
notify_initialized_then_clear ==
    /\ pc = "notify"
    /\ initialized_sent' = initialized_sent + 1
    /\ analysis_complete' = FALSE
    /\ pc' = "wait"
    /\ UNCHANGED <<handlers, process, starts, initialize_sent, init_response,
                   completions_available, logged, error, hpc, hsrc, messages, fired,
                   replies,
                   setup_vars, filter_vars, last>>

\* self.server.notify.initialized({})
notify_initialized ==
    /\ pc = "notify"
    /\ initialized_sent' = initialized_sent + 1
    /\ pc' = "wait"
    /\ UNCHANGED <<handlers, process, starts, initialize_sent, init_response,
                   analysis_complete, completions_available, logged, error, hpc, hsrc,
                   messages, fired, replies,
                   setup_vars, filter_vars, last>>

\* The branches of the wait exchanged: a set event takes the timeout branch.
wait_signaled_swapped ==
    /\ pc = "wait"
    /\ analysis_complete
    /\ logged' = logged \cup {"Timeout waiting for indexing completion"}
    /\ pc' = "timeout_set_analysis"
    /\ UNCHANGED <<handlers, process, starts, initialize_sent, init_response,
                   initialized_sent, analysis_complete, completions_available, error,
                   hpc, hsrc, messages, fired, replies,
                   setup_vars, filter_vars, last>>

\* self.analysis_complete.wait(timeout=30.0) returns True
wait_signaled ==
    /\ pc = "wait"
    /\ analysis_complete
    /\ logged' = logged \cup {"initial indexing complete, server ready"}
    /\ pc' = "returned"
    /\ UNCHANGED <<handlers, process, starts, initialize_sent, init_response,
                   initialized_sent, analysis_complete, completions_available, error,
                   hpc, hsrc, messages, fired, replies,
                   setup_vars, filter_vars, last>>

\* A wait without a timeout: it never returns False.
wait_without_timeout ==
    /\ pc = "wait"
    /\ ~analysis_complete
    /\ FALSE
    /\ UNCHANGED vars

\* The wait returns False whatever the event holds, as a plain 30 second
\* sleep would.
wait_timeout_unconditional ==
    /\ pc = "wait"
    /\ logged' = logged \cup {"Timeout waiting for indexing completion"}
    /\ fired' = Append(fired, Fired("timeout"))
    /\ pc' = "timeout_set_analysis"
    /\ UNCHANGED <<handlers, process, starts, initialize_sent, init_response,
                   initialized_sent, analysis_complete, completions_available, error,
                   hpc, hsrc, messages, replies,
                   setup_vars, filter_vars, last>>

\* the wait expires with the event unset and returns False; the warning is logged
wait_timeout ==
    /\ pc = "wait"
    /\ ~analysis_complete
    /\ logged' = logged \cup {"Timeout waiting for indexing completion"}
    /\ fired' = Append(fired, Fired("timeout"))
    /\ pc' = "timeout_set_analysis"
    /\ UNCHANGED <<handlers, process, starts, initialize_sent, init_response,
                   initialized_sent, analysis_complete, completions_available, error,
                   hpc, hsrc, messages, replies,
                   setup_vars, filter_vars, last>>

\* The fallback without its analysis_complete.set().
timeout_skip_set_analysis ==
    /\ pc = "timeout_set_analysis"
    /\ pc' = "timeout_set_completions"
    /\ UNCHANGED <<handlers, process, starts, initialize_sent, init_response,
                   initialized_sent, analysis_complete, completions_available, logged,
                   error, hpc, hsrc, messages, fired, replies,
                   setup_vars, filter_vars, last>>

\* fallback: self.analysis_complete.set()
timeout_set_analysis ==
    /\ pc = "timeout_set_analysis"
    /\ analysis_complete' = TRUE
    /\ pc' = "timeout_set_completions"
    /\ UNCHANGED <<handlers, process, starts, initialize_sent, init_response,
                   initialized_sent, completions_available, logged, error, hpc, hsrc,
                   messages, fired, replies,
                   setup_vars, filter_vars, last>>

\* fallback: self.completions_available.set(); _start_server returns
timeout_set_completions ==
    /\ pc = "timeout_set_completions"
    /\ completions_available' = TRUE
    /\ pc' = "returned"
    /\ UNCHANGED <<handlers, process, starts, initialize_sent, init_response,
                   initialized_sent, analysis_complete, logged, error, hpc, hsrc,
                   messages, fired, replies,
                   setup_vars, filter_vars, last>>

(***************************************************************************)
(* The engine and the delivery thread.                                     *)
(***************************************************************************)
\* The engine emits message m and the transport dispatches it: the
\* registered handler is entered, an unregistered method is dropped.
Emits(m) ==
    /\ process = "running"
    /\ hpc = "idle"
    /\ messages < MaxMessages
    /\ messages' = messages + 1
    /\ last' = m

Dropped(m) ==
    /\ logged' = logged \cup {"unhandled message"}
    /\ UNCHANGED <<control_vars, analysis_complete, completions_available, hpc, hsrc,
                   fired>>
    /\ replies' = NoReply

\* window_log_message up to its test of the text
window_log_message ==
    \E msg \in LogMessages :
        /\ Emits(msg)
        /\ IF msg.method \in Registered
           THEN
              /\ replies' = NoReply
              /\ LET message_text == IF "message" \in msg.keys THEN msg.message ELSE NoText
                 IN  IF \E keyword \in ready_keywords : contains(lower(message_text), keyword)
                     THEN /\ logged' = logged \cup {"LSP: window/logMessage",
                                                    "service ready signal detected"}
                          /\ hpc' = "set_analysis"
                          /\ hsrc' = "log"
                     ELSE /\ logged' = logged \cup {"LSP: window/logMessage"}
                          /\ UNCHANGED <<hpc, hsrc>>
              /\ UNCHANGED <<control_vars, analysis_complete, completions_available,
                             fired>>
           ELSE Dropped(msg)

\* A progress handler that reads the kind from params instead of params["value"].
progress_handler_kind_of_params ==
    \E params \in ProgressMessages :
        /\ Emits(params)
        /\ replies' = NoReply
        /\ IF "kind" \in params.keys /\ params.kind = "end"
           THEN /\ logged' = logged \cup {"indexing complete"}
                /\ hpc' = "set_analysis"
                /\ hsrc' = "progress"
           ELSE UNCHANGED <<logged, hpc, hsrc>>
        /\ UNCHANGED <<control_vars, analysis_complete, completions_available,
                       fired>>

\* A progress handler that also clears the latch when a new phase begins.
progress_handler_clears_on_begin ==
    \E params \in ProgressMessages :
        /\ Emits(params)
        /\ replies' = NoReply
        /\ IF "value" \in params.keys /\ params.kind = "end"
           THEN /\ logged' = logged \cup {"indexing complete"}
                /\ hpc' = "set_analysis"
                /\ hsrc' = "progress"
                /\ UNCHANGED analysis_complete
           ELSE /\ analysis_complete' = (analysis_complete /\ params.kind # "begin")
                /\ UNCHANGED <<logged, hpc, hsrc>>
        /\ UNCHANGED <<control_vars, completions_available, fired>>

\* A progress handler that takes any progress value for the end of indexing.
progress_handler_any_kind ==
    \E params \in ProgressMessages :
        /\ Emits(params)
        /\ replies' = NoReply
        /\ IF "value" \in params.keys
           THEN /\ logged' = logged \cup {"indexing complete"}
                /\ hpc' = "set_analysis"
                /\ hsrc' = "progress"
           ELSE UNCHANGED <<logged, hpc, hsrc>>
        /\ UNCHANGED <<control_vars, analysis_complete, completions_available,
                       fired>>

\* progress_handler up to its test of value.kind
progress_handler ==
    \E params \in ProgressMessages :
        /\ Emits(params)
        /\ IF params.method \in Registered
           THEN
              /\ replies' = NoReply
              /\ IF "value" \in params.keys /\ params.kind = "end"
                 THEN /\ logged' = logged \cup {"indexing complete"}
                      /\ hpc' = "set_analysis"
                      /\ hsrc' = "progress"
                 ELSE UNCHANGED <<logged, hpc, hsrc>>
              /\ UNCHANGED <<control_vars, analysis_complete, completions_available,
                             fired>>
           ELSE Dropped(params)

\* self.analysis_complete.set() in either handler
handler_set_analysis ==
    /\ hpc = "set_analysis"
    /\ analysis_complete' = TRUE
    /\ fired' = Append(fired, Fired(hsrc))
    /\ hpc' = "set_completions"
    /\ UNCHANGED <<control_vars, completions_available, logged, hsrc, messages, replies,
                   last>>

\* self.completions_available.set() in either handler; the handler returns
handler_set_completions ==
    /\ hpc = "set_completions"
    /\ completions_available' = TRUE
    /\ hpc' = "idle"
    /\ hsrc' = "none"
    /\ UNCHANGED <<control_vars, analysis_complete, logged, messages, fired, replies,
                   last>>

\* A diagnostics handler that takes the first diagnostics as a sign of readiness.
do_nothing_sets_completions ==
    \E params \in DiagnosticsMessages :
        /\ Emits(params)
        /\ replies' = NoReply
        /\ completions_available' = TRUE
        /\ UNCHANGED <<control_vars, analysis_complete, logged, hpc, hsrc, fired>>

\* do_nothing, the textDocument/publishDiagnostics handler
do_nothing ==
    \E params \in DiagnosticsMessages :
        /\ Emits(params)
        /\ IF params.method \in Registered
           THEN
              /\ replies' = NoReply
              /\ UNCHANGED <<control_vars, analysis_complete, completions_available,
                             logged, hpc, hsrc, fired>>
           ELSE Dropped(params)

\* register_capability_handler
register_capability_handler ==
    \E params \in RegisterCapabilityRequests :
        /\ Emits(params)
        /\ IF params.method \in Registered
           THEN
              /\ IF "registrations" \notin params.keys
                 THEN /\ replies' = "AssertionError"
                      /\ logged' = logged
                 ELSE LET registrations == params.registrations
                          n == Len(registrations)
                          \* the entries the loop logs before registration['method'] fails
                          done == IF \A i \in 1..n : "method" \in registrations[i]
                                  THEN n
                                  ELSE (CHOOSE i \in 1..n :
                                           /\ "method" \notin registrations[i]
                                           /\ \A j \in 1..(i - 1) : "method" \in registrations[j]) - 1
                      IN  /\ replies' = IF done = n THEN "None" ELSE "KeyError"
                          /\ logged' = IF done > 0
                                       THEN logged \cup {"Registered capability"}
                                       ELSE logged
              /\ UNCHANGED <<control_vars, analysis_complete, completions_available,
                             hpc, hsrc, fired>>
           ELSE Dropped(params)

\* A command handler that returns nothing.
execute_client_command_returns_none ==
    \E params \in ExecuteClientCommandRequests :
        /\ Emits(params)
        /\ replies' = "None"
        /\ UNCHANGED <<control_vars, analysis_complete, completions_available,
                       logged, hpc, hsrc, fired>>

\* execute_client_command_handler
execute_client_command_handler ==
    \E params \in ExecuteClientCommandRequests :
        /\ Emits(params)
        /\ IF params.method \in Registered
           THEN
              /\ replies' = "[]"
              /\ UNCHANGED <<control_vars, analysis_complete, completions_available,
                             logged, hpc, hsrc, fired>>
           ELSE Dropped(params)

\* The engine process exits on its own.
engine_exits ==
    /\ process = "running"
    /\ pc \notin {"returned", "failed"}
    /\ process' = "exited"
    /\ UNCHANGED <<pc, handlers, starts, initialize_sent, init_response, initialized_sent,
                   analysis_complete, completions_available, logged, error, hpc, hsrc,
                   messages, fired, replies,
                   setup_vars, filter_vars, last>>

Next ==
    \/ register_handler
    \/ server_start
    \/ send_initialize
    \/ receive_response
    \/ initialize_fails
    \/ verify_response
    \/ release_on_failure
    \/ notify_initialized
    \/ wait_signaled
    \/ wait_timeout
    \/ timeout_set_analysis
    \/ timeout_set_completions
    \/ window_log_message
    \/ progress_handler
    \/ handler_set_analysis
    \/ handler_set_completions
    \/ do_nothing
    \/ register_capability_handler
    \/ execute_client_command_handler
    \/ engine_exits

Spec == Init /\ [][Next]_vars

\* Construction followed by the control thread's steps up to the initialize
\* request.
NextSetup ==
    \/ find_perl_executable
    \/ check_perl_version
    \/ check_perl_language_server_installed
    \/ install_with_cpanm
    \/ install_with_cpan
    \/ get_perl_language_server_command
    \/ init_object
    \/ register_handler
    \/ server_start
    \/ send_initialize

SetupSpec == InitSetup /\ [][NextSetup]_vars

\* The bounded wait returns and the control thread then runs to the end of
\* _start_server: the steps from the wait on are weakly fair.
WaitStep ==
    \/ wait_signaled
    \/ wait_timeout
    \/ timeout_set_analysis
    \/ timeout_set_completions

FairSpec == Spec /\ WF_vars(WaitStep)

(***************************************************************************)
(* Properties.                                                             *)
(***************************************************************************)
timeout_warning == "Timeout waiting for indexing completion" \in logged
ready_logged == "initial indexing complete, server ready" \in logged

\* C1: whenever _start_server has returned normally, the analysis_complete
\* latch is set and the `initialized` notification has been sent.
C1_ReturnedImpliesReady ==
    pc = "returned" => (analysis_complete /\ initialized_sent >= 1)

C1_Witness ==
    /\ pc = "returned"
    /\ analysis_complete
    /\ fired = <<[source |-> "timeout", at |-> "wait"]>>

\* C2: once the response has passed validation and `initialized` has been
\* sent, startup eventually returns, also when no notification ever arrives,
\* and a timed-out wait never ends in an error.
C2_StartupReturns ==
    /\ (initialized_sent >= 1) ~> (pc = "returned")
    /\ [](timeout_warning => error = "none")

C2_Witness ==
    /\ pc = "returned"
    /\ messages = 0
    /\ timeout_warning
    /\ error = "none"

\* The readiness state of the design, read off the program state: the wait
\* expiring makes it ready-by-timeout, a handler setting the latch makes it
\* ready.
TerminalStates == {"ready", "ready-by-timeout"}

ReadinessState ==
    IF timeout_warning THEN "ready-by-timeout"
    ELSE IF analysis_complete THEN "ready"
    ELSE IF pc = "wait" THEN "awaiting-signal"
    ELSE "not-started"

HeuristicFiredFirst == fired # <<>> /\ fired[1].source \in {"log", "progress"}
TimeoutFiredFirst == fired # <<>> /\ fired[1].source = "timeout"

\* C3: whatever the order of the log message, the end of progress and the
\* expiry of the wait, the readiness state becomes terminal when the first of
\* them fires, with the value that source gives it, and no later step of any
\* source changes it again.
C3_FirstSignalWins ==
    [][/\ ReadinessState \in TerminalStates => ReadinessState' = ReadinessState
       /\ ReadinessState' \in TerminalStates <=> fired' # <<>>
       /\ HeuristicFiredFirst' => ReadinessState' = "ready"
       /\ TimeoutFiredFirst' => ReadinessState' = "ready-by-timeout"]_vars

C3_Witness ==
    /\ pc = "returned"
    /\ Len(fired) >= 3
    /\ fired[1].source = "timeout"
    /\ fired[2].source = "log"
    /\ fired[3].source = "progress"
    /\ ReadinessState = "ready-by-timeout"

\* C4: once analysis_complete is set, no step of the startup sequence or of a
\* handler clears it.
C4_LatchMonotonic ==
    [][analysis_complete => analysis_complete']_vars

C4_Witness ==
    /\ analysis_complete
    /\ messages = MaxMessages
    /\ Len(fired) >= 2
    /\ pc = "returned"
    /\ hpc = "idle"

\* C5: once the wait is over, the timeout branch has been taken (and its
\* warning logged) exactly when no handler had set the latch before the wait
\* expired; a handler that set it first rules the warning out for good.
C5_TimeoutIffNoHeuristic ==
    /\ pc \in {"timeout_set_analysis", "timeout_set_completions", "returned"} =>
          /\ timeout_warning <=> TimeoutFiredFirst
          /\ ready_logged <=> HeuristicFiredFirst
          /\ timeout_warning # ready_logged
    /\ HeuristicFiredFirst => ~timeout_warning

C5_Witness ==
    /\ pc = "returned"
    /\ fired = <<[source |-> "progress", at |-> "wait"]>>
    /\ ready_logged
    /\ ~timeout_warning

\* C6: all five handlers are registered before the engine process is started
\* and before initialize is sent, so no message of the engine finds its
\* handler missing.
C6_HandlersBeforeStart ==
    /\ (process # "none" \/ starts > 0 \/ initialize_sent > 0 \/ messages > 0) =>
          (Registered = AllHandlers /\ Len(handlers) = 5)
    /\ "unhandled message" \notin logged

C6_Witness ==
    /\ pc = "initialize"
    /\ initialize_sent = 0
    /\ messages = MaxMessages
    /\ replies = "[]"
    /\ Registered = AllHandlers

\* C7: a qualifying notification handled at any point after process start,
\* also before initialize is sent, before its response or before the wait
\* begins, keeps the latch set until the wait, which then cannot time out:
\* startup returns through the ready branch with no timeout warning.
C7_EarlySignalKept ==
    HeuristicFiredFirst =>
        /\ analysis_complete
        /\ ~ENABLED wait_timeout
        /\ pc \notin {"timeout_set_analysis", "timeout_set_completions"}
        /\ pc = "returned" => (ready_logged /\ ~timeout_warning)

C7_Witness ==
    /\ pc = "returned"
    /\ fired # <<>>
    /\ fired[1] = [source |-> "log", at |-> "initialize"]
    /\ ready_logged
    /\ ~timeout_warning

\* C8: `initialized` is sent at most once, and only after the initialize
\* response has arrived and passed the capability assertions; after a failed
\* validation it is never sent.
C8_InitializedAfterValidation ==
    /\ initialized_sent <= 1
    /\ initialized_sent = 1 =>
          /\ init_response \in Responses
          /\ verify_capabilities(init_response) = "ok"
          /\ pc \in {"wait", "timeout_set_analysis", "timeout_set_completions", "returned"}
    /\ pc \in {"register", "start", "initialize", "await_response", "verify", "notify",
               "raising", "failed"} => initialized_sent = 0
    /\ error # "none" => initialized_sent = 0

C8_Witness ==
    /\ initialized_sent = 1
    /\ init_response.capabilities.textDocumentSync.type = "dict"
    /\ pc = "wait"

MissingSync(r) ==
    /\ r \in Responses
    /\ \/ "capabilities" \notin r.keys
       \/ "textDocumentSync" \notin r.capabilities.keys

\* C9: with a response that lacks `capabilities` or `textDocumentSync`,
\* startup goes no further than validation and ends in the assertion error:
\* `initialized` is not sent, the wait is not entered and startup does not
\* return, whether or not a readiness notification has already been handled.
C9_MissingSyncIsFatal ==
    MissingSync(init_response) =>
        /\ pc \in {"verify", "raising", "failed"}
        /\ pc \in {"raising", "failed"} => error = "AssertionError"
        /\ initialized_sent = 0
        /\ ~ready_logged
        /\ ~timeout_warning

C9_Witness ==
    /\ MissingSync(init_response)
    /\ "capabilities" \in init_response.keys
    /\ pc = "failed"
    /\ error = "AssertionError"
    /\ analysis_complete

\* The values of textDocumentSync the handshake is meant to accept.
AcceptedSync(r) ==
    /\ "capabilities" \in r.keys
    /\ "textDocumentSync" \in r.capabilities.keys
    /\ LET v == r.capabilities.textDocumentSync
       IN  \/ v.type = "int" /\ v.num \in {1, 2}
           \/ v.type = "dict" /\ ("change" \in v.keys \/ "openClose" \in v.keys)

\* C10: the handshake succeeds only if textDocumentSync is an integer in
\* {1, 2} or an object with `change` or `openClose`; for every other value it
\* fails and the session does not proceed.
C10_OnlyAcceptedSyncProceeds ==
    (initialized_sent >= 1 \/ pc \in {"notify", "wait", "returned"}) =>
        AcceptedSync(init_response)

AllProviders == FirstProviders(Len(important_capabilities))

\* response r with its optional providers replaced by ps
WithProviders(r, ps) ==
    [r EXCEPT !.capabilities.keys = (@ \ AllProviders) \cup ps]

PastValidation == {"notify", "wait", "timeout_set_analysis", "timeout_set_completions", "returned"}

\* C11: the outcome of validation does not depend on the optional providers:
\* whatever subset of the seven the response names, the assertions give the
\* same result, and startup proceeds or fails as it does for the response
\* without any of them.
C11_OptionalCapabilitiesIgnored ==
    /\ pc = "verify" =>
          \A ps \in SUBSET AllProviders :
              verify_capabilities(WithProviders(init_response, ps))
                  = verify_capabilities(init_response)
    /\ pc \in PastValidation => verify_capabilities(WithProviders(init_response, {})) = "ok"
    /\ error = "AssertionError" => verify_capabilities(WithProviders(init_response, {})) # "ok"

C11_Witness ==
    /\ pc = "wait"
    /\ initialized_sent = 1
    /\ init_response.capabilities.keys = {"textDocumentSync"}
    /\ init_response.capabilities.textDocumentSync = SyncValue("int", 1, {})

\* C12: if the engine process exits during startup, startup does not return
\* successfully.
C12_CrashIsFatal ==
    process = "exited" => pc # "returned"

\* case-insensitive containment, letter by letter
fold(c) == IF c \in DOMAIN UpperToLower THEN UpperToLower[c] ELSE c

contains_ignoring_case(s, k) ==
    \E i \in 1..(Len(s) - Len(k) + 1) : \A j \in 1..Len(k) : fold(s[i + j - 1]) = fold(k[j])

ReadyLogMessage(m) ==
    /\ m.method = "window/logMessage"
    /\ "message" \in m.keys
    /\ \E keyword \in ready_keywords : contains_ignoring_case(m.message, keyword)

Dispatched == messages' = messages + 1

\* C13: every window/logMessage whose text contains "ready", "initialized" or
\* "startup complete" in any letter case puts the handler on its way to set
\* the two latches, whenever it is delivered, and the handler's next two steps
\* set analysis_complete and then completions_available.
C13_ReadyLogMessageSetsLatches ==
    [][/\ (Dispatched /\ ReadyLogMessage(last')) => (hpc' = "set_analysis" /\ hsrc' = "log")
       /\ (hsrc = "log" /\ hpc = "set_analysis" /\ hpc' # hpc) =>
             (analysis_complete' /\ hpc' = "set_completions" /\ hsrc' = "log")
       /\ (hsrc = "log" /\ hpc = "set_completions" /\ hpc' # hpc) =>
             (analysis_complete' /\ completions_available' /\ hpc' = "idle")]_vars

C13_Witness ==
    /\ last = Msg("window/logMessage", {"type", "message"}, text_server_READY, NoKind)
    /\ pc = "initialize"
    /\ hpc = "idle"
    /\ analysis_complete
    /\ completions_available
    /\ fired = <<[source |-> "log", at |-> "initialize"]>>

EndProgressMessage(m) ==
    /\ m.method = "$/progress"
    /\ "value" \in m.keys
    /\ m.kind = "end"

\* C14: every $/progress whose value.kind is "end" puts the handler on its
\* way to set the two latches, whenever it is delivered, and the handler's
\* next two steps set analysis_complete and then completions_available.
C14_EndProgressSetsLatches ==
    [][/\ (Dispatched /\ EndProgressMessage(last')) => (hpc' = "set_analysis" /\ hsrc' = "progress")
       /\ (hsrc = "progress" /\ hpc = "set_analysis" /\ hpc' # hpc) =>
             (analysis_complete' /\ hpc' = "set_completions" /\ hsrc' = "progress")
       /\ (hsrc = "progress" /\ hpc = "set_completions" /\ hpc' # hpc) =>
             (analysis_complete' /\ completions_available' /\ hpc' = "idle")]_vars

C14_Witness ==
    /\ last = Msg("$/progress", {"token", "value"}, NoText, "end")
    /\ pc = "wait"
    /\ hpc = "idle"
    /\ analysis_complete
    /\ completions_available
    /\ fired = <<[source |-> "progress", at |-> "wait"]>>

\* the latches, the handshake and the delivery thread, as a handler may touch them
HandshakeState ==
    <<pc, handlers, process, starts, initialize_sent, init_response, initialized_sent, error>>

\* C15: a textDocument/publishDiagnostics notification, delivered at any
\* point of startup, is handled by its registered handler and changes neither
\* latch nor the handshake.
C15_DiagnosticsChangeNothing ==
    [][(Dispatched /\ last'.method = "textDocument/publishDiagnostics") =>
          /\ UNCHANGED <<analysis_complete, completions_available, HandshakeState>>
          /\ UNCHANGED <<hpc, hsrc, fired, logged>>
          /\ replies' = NoReply]_vars

C15_Witness ==
    /\ last.method = "textDocument/publishDiagnostics"
    /\ messages = MaxMessages
    /\ pc = "wait"
    /\ ~analysis_complete
    /\ ~completions_available
    /\ "unhandled message" \notin logged

\* C16 as stated: every client/registerCapability request is acknowledged
\* without error, every workspace/executeClientCommand request is answered
\* with an empty list, and neither changes the latches or the handshake.
C16_RequestsAlwaysAcknowledged ==
    [][/\ (Dispatched /\ last'.method = "client/registerCapability") =>
             /\ replies' = "None"
             /\ UNCHANGED <<analysis_complete, completions_available, HandshakeState>>
       /\ (Dispatched /\ last'.method = "workspace/executeClientCommand") =>
             /\ replies' = "[]"
             /\ UNCHANGED <<analysis_complete, completions_available, HandshakeState>>]_vars

WellFormedRegistration(m) ==
    /\ "registrations" \in m.keys
    /\ \A i \in 1..Len(m.registrations) : "method" \in m.registrations[i]

\* C16, amended: a client/registerCapability request that carries a list
\* `registrations` whose entries each have a `method` is acknowledged without
\* error and one that lacks `registrations` fails the handler's assertion; every workspace/executeClientCommand request is
\* answered with an empty list; none of them changes the latches or the
\* handshake.
C16_RequestsAcknowledged ==
    [][/\ (Dispatched /\ last'.method = "client/registerCapability") =>
             /\ WellFormedRegistration(last') => replies' = "None"
             /\ "registrations" \notin last'.keys => replies' = "AssertionError"
             /\ UNCHANGED <<analysis_complete, completions_available, HandshakeState>>
             /\ UNCHANGED <<hpc, hsrc, fired>>
       /\ (Dispatched /\ last'.method = "workspace/executeClientCommand") =>
             /\ replies' = "[]"
             /\ UNCHANGED <<analysis_complete, completions_available, HandshakeState>>
             /\ UNCHANGED <<hpc, hsrc, fired, logged>>]_vars

C16_Witness ==
    /\ last = RegisterCapability(<<{"id", "method"}>>)
    /\ replies = "None"
    /\ "Registered capability" \in logged
    /\ pc = "await_response"
    /\ ~analysis_complete

(***************************************************************************)
(* Properties of construction.                                             *)
(***************************************************************************)
InstallFailed == "RuntimeError: Failed to install Perl::LanguageServer"

Invoked(cmd) == \E i \in 1..Len(invoked) : invoked[i].cmd = cmd
Succeeded(cmd) == \E i \in 1..Len(invoked) : invoked[i].cmd = cmd /\ invoked[i].result = "0"
Failed(cmd) == \E i \in 1..Len(invoked) : invoked[i].cmd = cmd /\ invoked[i].result # "0"

EngineMissing == Failed("perl -MPerl::LanguageServer")

C18_InstallFailureReported ==
    error = InstallFailed =>
        LET attempt == invoked[Len(invoked)]
        IN  /\ attempt.cmd = "perl -MCPAN"
            /\ attempt.result = "nonzero"
            /\ attempt.stderr # NoOutput => error_msg = attempt.stderr
            /\ attempt.stderr = NoOutput => error_msg = <<"CalledProcessError">>
            /\ pc = "construct_failed"
            /\ pls_executable = "none"
            /\ process = "none"
            /\ starts = 0

C18_Witness ==
    /\ error = InstallFailed
    /\ Len(invoked) = 4
    /\ invoked[3] = Ran("cpanm", "nonzero", <<"cpanm", "error output">>)
    /\ invoked[4] = Ran("perl -MCPAN", "nonzero", <<"perl -MCPAN", "error output">>)
    /\ error_msg = <<"perl -MCPAN", "error output">>
    /\ pls_executable = "none"

ProbeResult ==
    IF Len(invoked) >= 2 /\ invoked[2].cmd = "perl -MPerl::LanguageServer"
    THEN invoked[2].result
    ELSE "not run"

InstallerEntered ==
    \/ pc \in {"install_cpanm", "install_cpan"}
    \/ Invoked("cpanm")
    \/ Invoked("perl -MCPAN")

\* C19: the engine counts as missing, and the installer is entered, exactly
\* when the loadability probe exits non-zero or raises; when it exits with
\* status zero no package manager is run.
C19_ProbeDecidesInstall ==
    /\ ProbeResult = "0" => ~InstallerEntered
    /\ ProbeResult \in {"nonzero", "exception"} =>
          (InstallerEntered /\ "Perl::LanguageServer not found, attempting to install" \in logged)
    /\ InstallerEntered => ProbeResult \in {"nonzero", "exception"}

C19_Witness ==
    /\ ProbeResult = "exception"
    /\ Succeeded("cpanm")
    /\ ~Invoked("perl -MCPAN")
    /\ pc = "register"

StartupBegun ==
    \/ handlers # <<>>
    \/ process # "none"
    \/ starts > 0
    \/ initialize_sent > 0

\* C20: a failed pre-flight step (no perl on the path, a failing version
\* probe, a failed installation) ends construction: no launch command, no
\* handler, no process, no initialize request; and startup begins only with
\* perl resolved, the version probe passed, the engine found or installed and
\* the launch command built from the resolved path.
C20_PreflightFailureAborts ==
    /\ pc = "construct_failed" =>
          /\ error # "none"
          /\ pls_executable = "none"
          /\ ~StartupBegun
    /\ (Failed("perl --version") \/ Failed("perl -MCPAN")) => pc = "construct_failed"
    /\ StartupBegun =>
          /\ error = "none"
          /\ perl_path \in PerlPaths
          /\ Succeeded("perl --version")
          /\ Succeeded("perl -MPerl::LanguageServer") \/ Succeeded("cpanm")
                \/ Succeeded("perl -MCPAN")
          /\ pls_executable = LaunchCommand(perl_path)

C20_Witness ==
    /\ pc = "construct_failed"
    /\ error = "RuntimeError: Error checking Perl installation"
    /\ perl_path = PerlPath
    /\ Failed("perl --version")
    /\ ~StartupBegun

C23_StartBeforeHandshake ==
    [][/\ (initialize_sent' # initialize_sent \/ initialized_sent' # initialized_sent) =>
             (starts = 1 /\ process # "none")
       /\ starts' <= 1
       /\ starts' # starts => (process = "none" /\ process' = "running" /\ initialize_sent = 0)
       /\ pc' \in {"initialize", "await_response", "verify", "notify", "wait", "returned"} =>
             starts' = 1]_vars

C23_Witness ==
    /\ pc = "returned"
    /\ starts = 1
    /\ initialize_sent = 1
    /\ initialized_sent = 1

\* C25: at the moment _start_server returns both latches are set.
C25_BothLatchesAtReturn ==
    pc = "returned" => (analysis_complete /\ completions_available)

\* C26: analysis_complete goes from unset to set only in the handler of a
\* window/logMessage whose text contains a readiness keyword, in the handler
\* of a $/progress whose value.kind is "end", or in the timeout branch of the
\* wait; a log message without keyword, a progress notification without
\* `value` or with another kind, and every request leave it unset and start
\* no handler step that would set it.
C26_OnlyThreeSourcesSet ==
    [][/\ (~analysis_complete /\ analysis_complete') =>
             \/ /\ hpc = "set_analysis"
                /\ \/ (hsrc = "log" /\ ReadyLogMessage(last))
                   \/ (hsrc = "progress" /\ EndProgressMessage(last))
             \/ (pc = "timeout_set_analysis" /\ timeout_warning)
       /\ (Dispatched /\ ~ReadyLogMessage(last') /\ ~EndProgressMessage(last')) =>
             (UNCHANGED <<analysis_complete, completions_available>> /\ hpc' = "idle")]_vars

C26_Witness ==
    /\ last = Msg("$/progress", {"token", "value"}, NoText, "begin")
    /\ messages = 2
    /\ ~analysis_complete
    /\ hpc = "idle"
    /\ pc = "wait"

(***************************************************************************)
(* The launch command, the probes and the installer.                       *)
(***************************************************************************)
\* the positions of the control thread inside _get_perl_language_server_command
CommandSteps == {"check_installed", "install_cpanm", "install_cpan", "command"}

\* `<runtime> -MPerl::LanguageServer -e 'Perl::LanguageServer::run()' -- --stdio --version 2.6.0`
CommandLine(runtime) ==
    <<runtime>> \o <<"-MPerl::LanguageServer", "-e", "'Perl::LanguageServer::run()'">>
        \o <<"--", "--stdio", "--version", "2.6.0">>

\* C24 as stated: _get_perl_language_server_command starts no process, has
\* no side effects, and yields a command that depends on the runtime path
\* alone.
C24_CommandIsPure ==
    [][(pc \in CommandSteps) =>
          /\ UNCHANGED <<invoked, logged, process, starts>>
          /\ pls_executable' # pls_executable => pls_executable' = CommandLine(perl_path)]_vars

\* C24, amended: _get_perl_language_server_command never starts the engine
\* process and leaves the session untouched, and the command it returns is
\* the fixed command line around the runtime path; before that it runs the
\* loadability probe, and the installer when the probe fails, and it logs.
C24_CommandDependsOnPathOnly ==
    [][(pc \in CommandSteps) =>
          /\ UNCHANGED <<process, starts, handlers, initialize_sent, perl_path>>
          /\ pc' = "super_init" =>
                /\ pc = "command"
                /\ UNCHANGED invoked
                /\ pls_executable' = CommandLine(perl_path)
          /\ pc' # "super_init" => UNCHANGED pls_executable
          /\ pc = "check_installed" => Len(invoked') = Len(invoked) + 1]_vars

C24_Witness ==
    /\ pc = "super_init"
    /\ perl_path = "/opt/perl5/bin/perl"
    /\ pls_executable[1] = "/opt/perl5/bin/perl"
    /\ Len(pls_executable) = 8
    /\ Succeeded("perl -MCPAN")
    /\ process = "none"

Count(cmd) == Cardinality({i \in 1..Len(invoked) : invoked[i].cmd = cmd})

AnySucceeded ==
    \/ Succeeded("perl -MPerl::LanguageServer")
    \/ Succeeded("cpanm")
    \/ Succeeded("perl -MCPAN")

\* C27: the loadability probe runs at most once and never after an
\* installer run, and a launch command is returned exactly when the probe or
\* one package-manager run exited with status zero.
C27_ProbeOnceCommandOnSuccess ==
    /\ Count("perl -MPerl::LanguageServer") <= 1
    /\ \A i \in 1..Len(invoked) : invoked[i].cmd = "perl -MPerl::LanguageServer" => i = 2
    /\ pls_executable # "none" =>
          /\ AnySucceeded
          /\ invoked[Len(invoked)].result = "0"
          /\ Count("perl -MPerl::LanguageServer") = 1
    /\ (AnySucceeded /\ pc # "command") => pls_executable # "none"
    /\ pc = "command" => (AnySucceeded /\ error = "none")

C27_Witness ==
    /\ pls_executable # "none"
    /\ Failed("perl -MPerl::LanguageServer")
    /\ Failed("cpanm")
    /\ Succeeded("perl -MCPAN")
    /\ Len(invoked) = 4
    /\ pc = "register"

\* C28: within one startup cpanm is run at most once and cpan at most once,
\* and after a successful cpanm run cpan is never run and no error is raised.
C28_NoInstallRetry ==
    /\ Count("cpanm") <= 1
    /\ Count("perl -MCPAN") <= 1
    /\ Succeeded("cpanm") =>
          /\ ~Invoked("perl -MCPAN")
          /\ error = "none"
          /\ pc \notin {"install_cpan", "construct_failed"}

C28_Witness ==
    /\ Succeeded("cpanm")
    /\ Count("cpanm") = 1
    /\ ~Invoked("perl -MCPAN")
    /\ initialize_sent = 1
    /\ error = "none"

OldVersion(v) == v.found /\ (v.major < 5 \/ (v.major = 5 /\ v.minor < 16))

VersionWarning == "Warning: Perl::LanguageServer works best with Perl 5.16+" \in logged

\* C30: a non-zero exit of perl --version ends setup with an error before
\* any availability check or installation; a version older than 5.16 only
\* logs the warning and an unparsable version line logs nothing, and in both
\* cases setup goes on to the availability check.
C30_OnlyProbeFailureAborts ==
    /\ Failed("perl --version") =>
          /\ Len(invoked) = 1
          /\ pc = "construct_failed"
          /\ error = "RuntimeError: Error checking Perl installation"
    /\ Succeeded("perl --version") =>
          /\ VersionWarning <=> OldVersion(invoked[1].stdout)
          /\ error # "RuntimeError: Error checking Perl installation"
          /\ pc = "check_installed" \/ Invoked("perl -MPerl::LanguageServer")
    /\ (~Invoked("perl --version")) => ~VersionWarning

C30_Witness ==
    /\ Succeeded("perl --version")
    /\ invoked[1].stdout = VersionLine(TRUE, 5, 14, 4)
    /\ VersionWarning
    /\ Succeeded("perl -MPerl::LanguageServer")
    /\ pc = "register"

C30_UnparsableWitness ==
    /\ Succeeded("perl --version")
    /\ ~invoked[1].stdout.found
    /\ ~VersionWarning
    /\ pc = "check_installed"

(***************************************************************************)
(* Properties of the workspace filter.                                     *)
(***************************************************************************)
\* pattern p, a sequence of segments with "**" for any number of
\* directories, matches the path q
RECURSIVE GlobMatch(_, _)
GlobMatch(p, q) ==
    IF p = <<>>
    THEN q = <<>>
    ELSE IF Head(p) = "**"
         THEN GlobMatch(Tail(p), q) \/ (q # <<>> /\ GlobMatch(p, Tail(q)))
         ELSE q # <<>> /\ Head(q) = Head(p) /\ GlobMatch(Tail(p), Tail(q))

\* a file below the scanned directory, and the directory itself
PathBelow == nesting \o <<dirname, "Module.pm">>
PathOfDir == nesting \o <<dirname>>

\* pattern p excludes what lies under the scanned directory: it matches a
\* path below it, or the directory itself
Covers(p) == GlobMatch(p, PathBelow) \/ GlobMatch(p, PathOfDir)

PerlSpecificNames ==
    {"blib", ".build", "cover_db", "nytprof", "nytprof.out", "_build", "local", ".carton",
     ".cpanm", "fatlib", "perl5", "extlib", "inc", "share", "xt"}

\* C21: for every basename of the Perl exclusion list, at every nesting
\* depth, the returned pattern list holds a pattern that matches the paths
\* under a directory of that name.
C21_EveryIgnoredDirHasPattern ==
    (pc = "filtered" /\ dirname \in PerlSpecificNames) =>
        \E i \in 1..Len(patterns) : Covers(patterns[i])

\* C29: the Perl server ignores every name the base class ignores and each
\* of the fifteen Perl-specific names whatever the base class answers, and
\* it ignores a name only if it is one of the fifteen or the base class
\* ignores it.
C29_ExtendsBasePolicy ==
    pc \in {"get_patterns", "filtered"} =>
        /\ super_ignored => ignored
        /\ dirname \in PerlSpecificNames => ignored
        /\ ignored => (dirname \in PerlSpecificNames \/ super_ignored)

C29_Witness ==
    /\ pc = "filtered"
    /\ dirname = "xt"
    /\ ~super_ignored
    /\ ignored
    /\ Len(nesting) = 1

====
